---- MODULE Spec2Model ----
(***************************************************************************)
(* The WIP-limited task lifecycle engine of the task manager: the          *)
(* Firestore "tasks" collection, the client writes of TaskManager.tsx, the *)
(* two Firestore triggers (enforceWipOnCreate, enforceWipOnUpdate) and the *)
(* scheduled jobs dailyTriage and archiveOldTasks of functions/src/index.ts*)
(***************************************************************************)
EXTENDS Integers, Sequences, FiniteSets, Bags, TLC

VARIABLES store, nextId, ops, inflight, now, log, tpc, snapA, snapB, runs, afterRun,
          apc, snapS, aruns, afterArch, solo

vars == <<store, nextId, ops, inflight, now, log, tpc, snapA, snapB, runs, afterRun,
          apc, snapS, aruns, afterArch, solo>>

----------------------------------------------------------------------------
\* Bounds of the model.

\* Number of documents the client creates in one behaviour.
MaxTasks == 3
\* Number of client writes in one behaviour.
MaxOps == 4
\* Number of trigger invocations in flight at which the client stops writing.
MaxInflight == 2
\* Number of documents and of writes of one owner's session.
SessionTasks == 4
SessionOps == 6
\* Number of documents in the collection when a run of scheduled jobs starts.
MaxDocs == 2
\* Number of consecutive runs of a scheduled job.
MaxRuns == 2
\* Number of documents present, and of client writes made, while a triage
\* run races with client activations.
RaceDocs == 1
RaceOps == 4
\* Number of documents present, and of client writes made, while the
\* scheduled jobs run next to one owner's client.
JobDocs == 3
JobOps == 2
OwnerDocs == 3
OwnerOps == 2
AdmitOps == 6
RedoDocs == 3
RedoOps == 2

----------------------------------------------------------------------------
\* types.ts

BACKLOG == "Backlog"
TODAY == "Today"
DONE == "Done"
ARCHIVE == "Archive"
TaskStatus == {BACKLOG, TODAY, DONE, ARCHIVE}

Priority == {"P1", "P2", "P3", "P4"}

p1MaxToday == 3
p2MaxToday == 5

\* The signed-in users (user.uid).
Owners == {"u1", "u2"}

\* Document keys: the store assigns a fresh key to every added document.
TaskIds == 1..MaxTasks

\* The fields of a stored task document, as doc.data() returns them.  The
\* document key is not a field: createTask stores no id field, so the id of
\* the data is undefined.  An optional field is a set with at most one value.
TaskData(owner, priority, status, createdOn, completedOn) ==
    [owner |-> owner, priority |-> priority, status |-> status,
     createdOn |-> createdOn, completedOn |-> completedOn]

Undefined == 0

\* task.id of a Task read with doc.data(): the id field of the data.
DataId(data) == Undefined

----------------------------------------------------------------------------
\* The store and the events it raises.

Docs(s) == DOMAIN s

Put(s, id, data) == [i \in Docs(s) \cup {id} |-> IF i = id THEN data ELSE s[i]]

Remove(s, id) == [i \in Docs(s) \ {id} |-> s[i]]

CreateEvent(id, data) == [kind |-> "create", id |-> id, before |-> data, after |-> data, pc |-> "pending"]

UpdateEvent(id, before, after) == [kind |-> "update", id |-> id, before |-> before, after |-> after, pc |-> "pending"]

\* The trigger invocations a write of document id raises: onDocumentCreated
\* for a new document, onDocumentUpdated for a changed one (a write that
\* changes no value raises none), nothing for a delete.
WriteEvents(id, old, new) ==
    IF id \notin Docs(old) /\ id \in Docs(new)
      THEN SetToBag({CreateEvent(id, new[id])})
    ELSE IF id \in Docs(old) /\ id \in Docs(new) /\ old[id] # new[id]
      THEN SetToBag({UpdateEvent(id, old[id], new[id])})
    ELSE EmptyBag

Pending == BagToSet(inflight)

Finish(inv) == inflight (-) SetToBag({inv})

Say(msg, id) == [msg |-> msg, id |-> id]

\* The position and the locals of a run of archiveOldTasks, and the second
\* collection of the comparison of two runs (SpecOwners).
ArchVars == <<apc, snapS, aruns, afterArch, solo>>

JobVars == <<tpc, snapA, snapB, runs, afterRun, ArchVars>>

\* No second collection: one run is looked at.
NoSolo == <<>>

----------------------------------------------------------------------------
\* checkWipLimits

ActiveCount(s, userId, priority) ==
    Cardinality({i \in Docs(s) : /\ s[i].owner = userId
                                 /\ s[i].status = TODAY
                                 /\ s[i].priority = priority})

Limit(priority) == IF priority = "P1" THEN p1MaxToday ELSE p2MaxToday

checkWipLimitsNever(s, userId, priority) == FALSE

checkWipLimitsLate(s, userId, priority) ==
    IF priority # "P1" /\ priority # "P2"
      THEN FALSE
      ELSE ActiveCount(s, userId, priority) > Limit(priority) + 1

checkWipLimitsNoGuard(s, userId, priority) ==
    (ActiveCount(s, userId, priority) + 1) >
        (IF priority = "P2" THEN p2MaxToday ELSE p1MaxToday)

checkWipLimits(s, userId, priority) ==
    IF priority # "P1" /\ priority # "P2"
      THEN FALSE
      ELSE (ActiveCount(s, userId, priority) + 1) > Limit(priority)

----------------------------------------------------------------------------
\* Client writes (TaskManager.tsx).

\* createTask: addDoc with the form's priority and status (Backlog or Today).
createTask(owner, priority, status) ==
    LET id == nextId + 1
           new == Put(store, id, TaskData(owner, priority, status, now, {}))
    IN /\ store' = new
       /\ nextId' = id
       /\ inflight' = inflight (+) WriteEvents(id, store, new)
       /\ ops' = ops + 1
       /\ UNCHANGED <<now, log, JobVars>>

\* updateTask: updateDoc with the form's priority and status; the form is
\* pre-filled with the task's status and offers Backlog and Today.
updateTask(id, priority, status) ==
    /\ id \in Docs(store)
    /\ status \in {store[id].status, BACKLOG, TODAY}
    /\ LET new == Put(store, id, [store[id] EXCEPT !.priority = priority, !.status = status])
       IN /\ store' = new
          /\ inflight' = inflight (+) WriteEvents(id, store, new)
    /\ ops' = ops + 1
    /\ UNCHANGED <<nextId, now, log, JobVars>>

\* updateTaskStatus: the buttons Today (on a Backlog task), Backlog (on a
\* Today task) and Done (on a task that is not Done); Done also writes
\* completedOn.
updateTaskStatus(id, newStatus) ==
    /\ id \in Docs(store)
    /\ \/ newStatus = TODAY /\ store[id].status = BACKLOG
       \/ newStatus = BACKLOG /\ store[id].status = TODAY
       \/ newStatus = DONE /\ store[id].status # DONE
    /\ LET upd == IF newStatus = DONE
                    THEN [store[id] EXCEPT !.status = newStatus, !.completedOn = {now}]
                    ELSE [store[id] EXCEPT !.status = newStatus]
           new == Put(store, id, upd)
       IN /\ store' = new
          /\ inflight' = inflight (+) WriteEvents(id, store, new)
    /\ ops' = ops + 1
    /\ UNCHANGED <<nextId, now, log, JobVars>>

deleteTask(id) ==
    /\ id \in Docs(store)
    /\ store' = Remove(store, id)
    /\ ops' = ops + 1
    /\ UNCHANGED <<nextId, inflight, now, log, JobVars>>

----------------------------------------------------------------------------
\* enforceWipOnCreate

\* Up to the first await: the status test and the count of checkWipLimits.
OnCreateCheck(inv) ==
    /\ inv \in Pending /\ inv.kind = "create" /\ inv.pc = "pending"
    /\ IF inv.after.status # TODAY
         THEN /\ inflight' = Finish(inv)
              /\ log' = Say("not in Today", inv.id)
         ELSE IF checkWipLimits(store, inv.after.owner, inv.after.priority)
           THEN /\ inflight' = Finish(inv) (+) SetToBag({[inv EXCEPT !.pc = "delete"]})
                /\ log' = log
           ELSE /\ inflight' = Finish(inv)
                /\ log' = Say("ok", inv.id)
    /\ UNCHANGED <<store, nextId, ops, now, JobVars>>

\* What snapshot.ref.delete() leaves of the collection.
DeletedByQuery(s, inv) ==
    [i \in {j \in Docs(s) : ~(/\ s[j].owner = inv.after.owner
                               /\ s[j].status = TODAY
                               /\ s[j].priority = inv.after.priority)} |-> s[i]]

Deleted(s, inv) == Remove(s, inv.id)

\* The rollback of the creation.
OnCreateDelete(inv) ==
    /\ inv \in Pending /\ inv.kind = "create" /\ inv.pc = "delete"
    /\ store' = Deleted(store, inv)
    /\ inflight' = Finish(inv)
    /\ log' = Say("deleted", inv.id)
    /\ UNCHANGED <<nextId, ops, now, JobVars>>

----------------------------------------------------------------------------
\* enforceWipOnUpdate

wasInTodayIgnored(inv) == FALSE

CompletesNever(inv) == FALSE

CompletesWhateverAfter(inv) == inv.before.status # DONE

nowInTodayAlways(inv) == TRUE

wasInToday(inv) == inv.before.status = TODAY
nowInToday(inv) == inv.after.status = TODAY
Completes(inv) == inv.before.status # DONE /\ inv.after.status = DONE

\* Up to the first await: for an entry into Today the count of
\* checkWipLimits; otherwise the completedOn update of a task that became
\* Done (an update of a document that no longer exists fails).
OnUpdateCheck(inv) ==
    /\ inv \in Pending /\ inv.kind = "update" /\ inv.pc = "pending"
    /\ IF ~wasInToday(inv) /\ nowInToday(inv)
         THEN /\ IF checkWipLimits(store, inv.after.owner, inv.after.priority)
                   THEN /\ inflight' = Finish(inv) (+) SetToBag({[inv EXCEPT !.pc = "revert"]})
                        /\ log' = log
                   ELSE /\ inflight' = Finish(inv)
                        /\ log' = Say("ok", inv.id)
              /\ store' = store
         ELSE IF Completes(inv) /\ inv.id \in Docs(store)
           THEN LET new == Put(store, inv.id, [store[inv.id] EXCEPT !.completedOn = {now}])
                IN /\ store' = new
                   /\ inflight' = Finish(inv) (+) WriteEvents(inv.id, store, new)
                   /\ log' = Say("completed", inv.id)
           ELSE /\ store' = store
                /\ inflight' = Finish(inv)
                /\ log' = Say("no action", inv.id)
    /\ UNCHANGED <<nextId, ops, now, JobVars>>

\* What after.ref.set(beforeData) leaves in the document.
RevertedStatusOnly(cur, beforeData) == [cur EXCEPT !.status = beforeData.status]

Reverted(cur, beforeData) == beforeData

\* event.data.after.ref.set(beforeData): the document is overwritten, and
\* created when it no longer exists.
OnUpdateRevert(inv) ==
    /\ inv \in Pending /\ inv.kind = "update" /\ inv.pc = "revert"
    /\ LET cur == IF inv.id \in Docs(store) THEN store[inv.id] ELSE inv.before
           new == Put(store, inv.id, Reverted(cur, inv.before))
       IN /\ store' = new
          /\ inflight' = Finish(inv) (+) WriteEvents(inv.id, store, new)
    /\ log' = Say("reverted", inv.id)
    /\ UNCHANGED <<nextId, ops, now, JobVars>>

----------------------------------------------------------------------------
\* dailyTriage

\* todayTasksQuery: status == Today (and != Done), the keys of the snapshot.
TodayQueryFirst(s) ==
    LET all == {i \in Docs(s) : s[i].status = TODAY}
    IN {i \in all : \A j \in all : i <= j}

TodayQuery(s) == {i \in Docs(s) : s[i].status = TODAY /\ s[i].status # DONE}

\* The effect of a committed batch of update(ref, {status}) on the keys ids.
BatchUpdateStamping(s, ids, status) ==
    [i \in Docs(s) |-> IF i \in ids
                         THEN [s[i] EXCEPT !.status = status, !.completedOn = {s[i].createdOn}]
                         ELSE s[i]]

BatchUpdateFirst(s, ids, status) ==
    [i \in Docs(s) |-> IF i \in ids /\ (\A j \in ids : i <= j)
                         THEN [s[i] EXCEPT !.status = status] ELSE s[i]]

BatchUpdate(s, ids, status) ==
    [i \in Docs(s) |-> IF i \in ids THEN [s[i] EXCEPT !.status = status] ELSE s[i]]

\* The events of a committed batch: one per document it changed.
RECURSIVE BatchEvents(_, _, _)
BatchEvents(ids, old, new) ==
    IF ids = {} THEN EmptyBag
    ELSE LET i == CHOOSE x \in ids : TRUE
         IN WriteEvents(i, old, new) (+) BatchEvents(ids \ {i}, old, new)

\* orderBy("createdOn", "asc"): ascending createdOn, equal times by key.
Precedes(s, i, j) ==
    \/ s[i].createdOn < s[j].createdOn
    \/ s[i].createdOn = s[j].createdOn /\ i <= j

RECURSIVE OrderByCreatedOn(_, _)
OrderByCreatedOn(s, ids) ==
    IF ids = {} THEN <<>>
    ELSE LET first == CHOOSE i \in ids : \A j \in ids : Precedes(s, i, j)
         IN <<[key |-> first, data |-> s[first]]>> \o OrderByCreatedOn(s, ids \ {first})

\* backlogTasksQuery: the snapshot's documents, oldest first.
BacklogQuery(s) == OrderByCreatedOn(s, {i \in Docs(s) : s[i].status = BACKLOG})

\* tasksByUser[userId]: the snapshot's tasks of one owner, in snapshot order.
tasksByUser(snap, userId) == SelectSeq(snap, LAMBDA e : e.data.owner = userId)

p1Tasks(userTasks) == SelectSeq(userTasks, LAMBDA e : e.data.priority = "P1")
p2Tasks(userTasks) == SelectSeq(userTasks, LAMBDA e : e.data.priority = "P2")

\* slice(0, n)
Slice(seq, n) == SubSeq(seq, 1, IF Len(seq) < n THEN Len(seq) ELSE n)

Range(seq) == {seq[k] : k \in 1..Len(seq)}

\* p1ToPromote and p2ToPromote of every user.
ToPromote(snap) ==
    UNION {Range(Slice(p1Tasks(tasksByUser(snap, u)), p1MaxToday))
             \cup Range(Slice(p2Tasks(tasksByUser(snap, u)), p2MaxToday)) : u \in Owners}

\* The documents batch2 addresses: db.collection("tasks").doc(task.id) of
\* every task to promote, task being the data of the document.
Batch2RefsByKeyOfAll(snap) ==
    UNION {{e.key : e \in Range(Slice(tasksByUser(snap, u), p1MaxToday))} : u \in Owners}

Batch2Refs(snap) == {DataId(e.data) : e \in ToPromote(snap)}

\* Step 1, the query.  The schedule starts a run at 06:00, when no run of
\* the 06:30 job is under way.
PhaseARead ==
    /\ tpc = "idle" /\ runs < MaxRuns /\ apc = "idle"
    /\ snapA' = TodayQuery(store)
    /\ tpc' = "A_commit"
    /\ UNCHANGED <<store, nextId, ops, inflight, now, log, snapB, runs, afterRun, ArchVars>>

EndRunRetry(s) ==
    /\ tpc' = "B_read"
    /\ runs' = runs + 1
    /\ afterRun' = IF runs = 0 THEN s ELSE afterRun
    /\ snapA' = snapA
    /\ snapB' = <<>>

\* The run is over: caught errors are logged and the job returns.
EndRun(s) ==
    /\ tpc' = "idle"
    /\ runs' = runs + 1
    /\ afterRun' = IF runs = 0 THEN s ELSE afterRun
    /\ snapA' = {}
    /\ snapB' = <<>>

\* Step 1, batch1.commit(): every update or, when a document of the batch
\* no longer exists, none, and the error ends the run.
PhaseACommit ==
    /\ tpc = "A_commit"
    /\ IF snapA \subseteq Docs(store)
         THEN LET new == BatchUpdate(store, snapA, BACKLOG)
              IN /\ store' = new
                 /\ inflight' = inflight (+) BatchEvents(snapA, store, new)
                 /\ tpc' = "B_read"
                 /\ log' = Say("moved", Cardinality(snapA))
                 /\ UNCHANGED <<snapA, snapB, runs, afterRun>>
         ELSE /\ EndRun(store)
              /\ log' = Say("triage failed", 0)
              /\ UNCHANGED <<store, inflight>>
    /\ UNCHANGED <<nextId, ops, now, ArchVars>>

\* Step 2, the query.
PhaseBRead ==
    /\ tpc = "B_read"
    /\ snapB' = BacklogQuery(store)
    /\ tpc' = "B_commit"
    /\ UNCHANGED <<store, nextId, ops, inflight, now, log, snapA, runs, afterRun, ArchVars>>

\* Step 3: batch2 is built and committed.  doc(undefined) throws, and so does
\* the commit of an update of a document that no longer exists.
PhaseBCommit ==
    /\ tpc = "B_commit"
    /\ LET refs == Batch2Refs(snapB)
       IN IF Undefined \notin refs /\ refs \subseteq Docs(store)
            THEN LET new == BatchUpdate(store, refs, TODAY)
                 IN /\ store' = new
                    /\ inflight' = inflight (+) BatchEvents(refs, store, new)
                    /\ log' = Say("promoted", Cardinality(ToPromote(snapB)))
                    /\ EndRun(new)
            ELSE /\ EndRun(store)
                 /\ log' = Say("triage failed", 0)
                 /\ UNCHANGED <<store, inflight>>
    /\ UNCHANGED <<nextId, ops, now, ArchVars>>

Triage == PhaseARead \/ PhaseACommit \/ PhaseBRead \/ PhaseBCommit

\* The documents that steps 2 and 3 turn into Today tasks, for a snapshot
\* snap read from the collection s: all those of batch2, or none when the
\* building or the commit of the batch throws.
PromotedBy(s, snap) ==
    LET refs == Batch2Refs(snap)
    IN IF Undefined \notin refs /\ refs \subseteq Docs(s) THEN refs ELSE {}

----------------------------------------------------------------------------
\* archiveOldTasks

STALE_TASK_DAYS == 90

\* cutoffDate: the current date, STALE_TASK_DAYS days earlier (times in days).
cutoffDate(t) == t - STALE_TASK_DAYS

\* staleTasksQuery: status == Backlog and createdOn < cutoffDate.
staleTasksQueryAnyStatus(s, t) ==
    {i \in Docs(s) : s[i].createdOn < cutoffDate(t)}

staleTasksQueryUpTo(s, t) ==
    {i \in Docs(s) : s[i].status = BACKLOG /\ s[i].createdOn <= cutoffDate(t)}

staleTasksQuery(s, t) ==
    {i \in Docs(s) : s[i].status = BACKLOG /\ s[i].createdOn < cutoffDate(t)}

\* The run is over.
EndArch(s) ==
    /\ apc' = "idle"
    /\ aruns' = aruns + 1
    /\ afterArch' = IF aruns = 0 THEN s ELSE afterArch
    /\ snapS' = {}

\* The query, and the return when the snapshot is empty.  The schedule
\* starts a run at 06:30, when no run of the 06:00 job is under way.
ArchRead ==
    /\ apc = "idle" /\ aruns < MaxRuns /\ tpc = "idle"
    /\ LET snap == staleTasksQuery(store, now)
       IN IF snap = {}
            THEN /\ log' = Say("no stale tasks", 0)
                 /\ EndArch(store)
            ELSE /\ apc' = "commit"
                 /\ snapS' = snap
                 /\ UNCHANGED <<log, aruns, afterArch>>
    /\ UNCHANGED <<store, nextId, ops, inflight, now, tpc, snapA, snapB, runs, afterRun, solo>>

\* batch.commit(): every update or, when a document of the batch no longer
\* exists, none, and the error is caught and logged.
ArchCommit ==
    /\ apc = "commit"
    /\ IF snapS \subseteq Docs(store)
         THEN LET new == BatchUpdate(store, snapS, ARCHIVE)
              IN /\ store' = new
                 /\ inflight' = inflight (+) BatchEvents(snapS, store, new)
                 /\ log' = Say("archived", Cardinality(snapS))
                 /\ EndArch(new)
         ELSE /\ log' = Say("archive failed", 0)
              /\ UNCHANGED <<store, inflight>>
              /\ EndArch(store)
    /\ UNCHANGED <<nextId, ops, now, tpc, snapA, snapB, runs, afterRun, solo>>

Archiver == ArchRead \/ ArchCommit

----------------------------------------------------------------------------
\* The client and the two triggers, no scheduled job running.

\* The client writes while its budget of writes lasts and fewer than
\* MaxInflight trigger invocations are in flight.
CanWrite == ops < MaxOps /\ BagCardinality(inflight) < MaxInflight

Client ==
    \/ \E o \in Owners, p \in Priority, s \in {BACKLOG, TODAY} :
          CanWrite /\ nextId < MaxTasks /\ createTask(o, p, s)
    \/ \E id \in TaskIds, p \in Priority, s \in TaskStatus :
          CanWrite /\ updateTask(id, p, s)
    \/ \E id \in TaskIds, s \in TaskStatus :
          CanWrite /\ updateTaskStatus(id, s)
    \/ \E id \in TaskIds :
          CanWrite /\ deleteTask(id)

Handlers ==
    \/ \E inv \in Pending : OnCreateCheck(inv)
    \/ \E inv \in Pending : OnCreateDelete(inv)
    \/ \E inv \in Pending : OnUpdateCheck(inv)
    \/ \E inv \in Pending : OnUpdateRevert(inv)

Init ==
    /\ store = <<>>
    /\ nextId = 0
    /\ ops = 0
    /\ inflight = EmptyBag
    /\ now = 0
    /\ log = Say("none", 0)
    /\ tpc = "idle"
    /\ snapA = {}
    /\ snapB = <<>>
    /\ runs = 0
    /\ afterRun = <<>>
    /\ apc = "idle"
    /\ snapS = {}
    /\ aruns = 0
    /\ afterArch = <<>>
    /\ solo = NoSolo

Next == Client \/ Handlers

Spec == Init /\ [][Next]_vars

----------------------------------------------------------------------------
\* One owner's session with the form: tasks of priority P1 (limited) and P3
\* (unlimited) are created and edited between Backlog and Today, each write
\* after the triggers of the previous one have finished.

SessionPriority == {"P1", "P3"}

CanEdit == ops < SessionOps /\ inflight = EmptyBag

NextSession ==
    \/ \E p \in SessionPriority, s \in {BACKLOG, TODAY} :
          CanEdit /\ nextId < SessionTasks /\ createTask("u1", p, s)
    \/ \E id \in 1..SessionTasks, p \in SessionPriority, s \in {BACKLOG, TODAY} :
          CanEdit /\ updateTask(id, p, s)
    \/ \E inv \in Pending : OnCreateCheck(inv)
    \/ \E inv \in Pending : OnCreateDelete(inv)
    \/ \E inv \in Pending : OnUpdateCheck(inv)
    \/ \E inv \in Pending : OnUpdateRevert(inv)

SpecSession == Init /\ [][NextSession]_vars

----------------------------------------------------------------------------
\* The scheduled triage on a collection no client is writing to.

\* The creation times of the documents present when the run starts: two
\* instants, so that documents are older, younger or of the same age.
SeedTimes == {0, 1}

SeedNow == CHOOSE t \in SeedTimes : \A u \in SeedTimes : u <= t

\* A completed task carries the completedOn that updateTaskStatus wrote.
SeedData ==
    {TaskData(o, p, s, t, IF s = DONE THEN {SeedNow} ELSE {}) :
        o \in Owners, p \in Priority, s \in TaskStatus, t \in SeedTimes}

InitTriage ==
    /\ store \in [1..MaxDocs -> SeedData]
    /\ nextId = MaxDocs
    /\ ops = 0
    /\ inflight = EmptyBag
    /\ now = SeedNow
    /\ log = Say("none", 0)
    /\ tpc = "idle"
    /\ snapA = {}
    /\ snapB = <<>>
    /\ runs = 0
    /\ afterRun = <<>>
    /\ apc = "idle"
    /\ snapS = {}
    /\ aruns = 0
    /\ afterArch = <<>>
    /\ solo = NoSolo

NextTriage == Triage \/ (\E inv \in Pending : OnUpdateCheck(inv))

SpecTriage == InitTriage /\ [][NextTriage]_vars

----------------------------------------------------------------------------
\* One run of the scheduled triage while one owner activates tasks:
\* creations in Today and moves of Backlog tasks into Today, with the two
\* triggers.

RaceSeed == {TaskData("u1", "P1", s, 0, {}) : s \in {BACKLOG, TODAY}}

InitRace ==
    /\ store \in [1..RaceDocs -> RaceSeed]
    /\ nextId = RaceDocs
    /\ ops = 0
    /\ inflight = EmptyBag
    /\ now = 0
    /\ log = Say("none", 0)
    /\ tpc = "idle"
    /\ snapA = {}
    /\ snapB = <<>>
    /\ runs = 0
    /\ afterRun = <<>>
    /\ apc = "idle"
    /\ snapS = {}
    /\ aruns = 0
    /\ afterArch = <<>>
    /\ solo = NoSolo

\* The owner writes while the budget of writes lasts and fewer than
\* MaxInflight trigger invocations are in flight.
CanActivate == ops < RaceOps /\ BagCardinality(inflight) < MaxInflight

NextRace ==
    \/ CanActivate /\ createTask("u1", "P1", TODAY)
    \/ \E id \in 1..(RaceDocs + RaceOps) : CanActivate /\ updateTaskStatus(id, TODAY)
    \/ \E inv \in Pending : OnCreateCheck(inv)
    \/ \E inv \in Pending : OnCreateDelete(inv)
    \/ \E inv \in Pending : OnUpdateCheck(inv)
    \/ \E inv \in Pending : OnUpdateRevert(inv)
    \/ (runs = 0 /\ Triage)

SpecRace == InitRace /\ [][NextRace]_vars

----------------------------------------------------------------------------
\* The scheduled archiver on a collection no client is writing to.

\* The day of the run, and the creation days of the documents present: the
\* day before the cutoff, the cutoff and the day after.
ArchNow == STALE_TASK_DAYS + 1

ArchTimes == {cutoffDate(ArchNow) - 1, cutoffDate(ArchNow), cutoffDate(ArchNow) + 1}

ArchSeed ==
    {TaskData("u1", p, s, t, IF s = DONE THEN {t} ELSE {}) :
        p \in {"P1", "P3"}, s \in TaskStatus, t \in ArchTimes}

InitArchive ==
    /\ store \in [1..MaxDocs -> ArchSeed]
    /\ nextId = MaxDocs
    /\ ops = 0
    /\ inflight = EmptyBag
    /\ now = ArchNow
    /\ log = Say("none", 0)
    /\ tpc = "idle"
    /\ snapA = {}
    /\ snapB = <<>>
    /\ runs = 0
    /\ afterRun = <<>>
    /\ apc = "idle"
    /\ snapS = {}
    /\ aruns = 0
    /\ afterArch = <<>>
    /\ solo = NoSolo

NextArchive == Archiver \/ (\E inv \in Pending : OnUpdateCheck(inv))

SpecArchive == InitArchive /\ [][NextArchive]_vars

----------------------------------------------------------------------------
\* One run of each scheduled job while one owner moves tasks between
\* Backlog, Today and Done and deletes tasks, with the triggers.

\* The owner's P1 tasks, in Backlog or Today, created before or after the
\* cutoff of the archiver.
JobSeed ==
    {TaskData("u1", "P1", s, t, {}) :
        s \in {BACKLOG, TODAY}, t \in {cutoffDate(ArchNow) - 1, cutoffDate(ArchNow) + 1}}

InitJobs ==
    /\ store \in [1..JobDocs -> JobSeed]
    /\ nextId = JobDocs
    /\ ops = 0
    /\ inflight = EmptyBag
    /\ now = ArchNow
    /\ log = Say("none", 0)
    /\ tpc = "idle"
    /\ snapA = {}
    /\ snapB = <<>>
    /\ runs = 0
    /\ afterRun = <<>>
    /\ apc = "idle"
    /\ snapS = {}
    /\ aruns = 0
    /\ afterArch = <<>>
    /\ solo = NoSolo

\* The owner writes while the budget of writes lasts and fewer than
\* MaxInflight trigger invocations are in flight.
CanOperate == ops < JobOps /\ BagCardinality(inflight) < MaxInflight

NextJobs ==
    \/ \E id \in 1..JobDocs, s \in TaskStatus : CanOperate /\ updateTaskStatus(id, s)
    \/ \E id \in 1..JobDocs : CanOperate /\ deleteTask(id)
    \/ \E inv \in Pending : OnCreateCheck(inv)
    \/ \E inv \in Pending : OnUpdateCheck(inv)
    \/ \E inv \in Pending : OnUpdateRevert(inv)
    \/ (runs = 0 /\ Triage)
    \/ (aruns = 0 /\ Archiver)

SpecJobs == InitJobs /\ [][NextJobs]_vars

----------------------------------------------------------------------------
\* One owner's status buttons and deletions with the update trigger, every
\* delivered event being handled in the end: an invocation of the trigger
\* that can take its step takes it.

NextLive ==
    \/ \E id \in 1..JobDocs, s \in TaskStatus : CanOperate /\ updateTaskStatus(id, s)
    \/ \E id \in 1..JobDocs : CanOperate /\ deleteTask(id)
    \/ \E inv \in Pending : OnCreateCheck(inv)
    \/ \E inv \in Pending : OnUpdateCheck(inv)
    \/ \E inv \in Pending : OnUpdateRevert(inv)

SpecLive ==
    /\ InitJobs
    /\ [][NextLive]_vars
    /\ WF_vars(\E inv \in Pending : OnCreateCheck(inv))
    /\ WF_vars(\E inv \in Pending : OnUpdateCheck(inv))
    /\ WF_vars(\E inv \in Pending : OnUpdateRevert(inv))

----------------------------------------------------------------------------
\* The two scheduled jobs, one after the other, on a collection no client
\* is writing to.

NextSchedule == Triage \/ Archiver \/ (\E inv \in Pending : OnUpdateCheck(inv))

SpecSchedule == InitArchive /\ [][NextSchedule]_vars

----------------------------------------------------------------------------
\* Two runs compared.  Two owners share the collection `store`; `solo` is
\* the second run, on the collection that holds the tasks of the observed
\* owner only.  Both runs take the same steps in the same order: the client
\* writes (tasks created in Today, tasks moved to Today, tasks deleted), the
\* trigger invocations and the steps of one Triage run.  The
\* second run takes each step first (the Solo actions) and the first run
\* follows with the same step.

Observed == "u1"

\* The tasks present at the start: Queued and Active tasks of the observed
\* owner, Active tasks of the other.
OwnerSeed ==
    {TaskData(Observed, "P1", s, 0, {}) : s \in {BACKLOG, TODAY}}
       \cup {TaskData(o, "P1", TODAY, 0, {}) : o \in Owners \ {Observed}}

\* The collection as it is with the tasks of owner u only.
OwnTasks(s, u) == [i \in {j \in Docs(s) : s[j].owner = u} |-> s[i]]

\* What a step of the first run changes.
Seen == <<store, inflight, tpc, ops>>

InitOwners ==
    /\ store \in [1..OwnerDocs -> OwnerSeed]
    /\ nextId = OwnerDocs
    /\ ops = 0
    /\ inflight = EmptyBag
    /\ now = SeedNow
    /\ log = Say("none", 0)
    /\ tpc = "idle"
    /\ snapA = {}
    /\ snapB = <<>>
    /\ runs = 0
    /\ afterRun = <<>>
    /\ apc = "idle"
    /\ snapS = {}
    /\ aruns = 0
    /\ afterArch = <<>>
    /\ solo = [store |-> OwnTasks(store, Observed), snapA |-> {}, snapB |-> <<>>,
               inRun |-> FALSE, step |-> <<"none", 0>>, seen |-> <<>>,
               verdict |-> FALSE, promoted |-> {}]

CanShare == ops < OwnerOps /\ BagCardinality(inflight) < MaxInflight

\* The invocation asks for an admission decision: a create in Today or an
\* update into Today.
Activation(inv) ==
    /\ inv.pc = "pending"
    /\ inv.after.status = TODAY
    /\ inv.kind = "create" \/ inv.before.status # TODAY

\* The second run takes the step <<name, arg>>, which leaves it with the
\* collection own and the snapshots sA and sB; verdict is the result of its
\* checkWipLimits and promoted the tasks its batch2 turns into Today tasks.
SoloTakes(name, arg, own, sA, sB, inRun, verdict, promoted) ==
    /\ solo.step[1] = "none" \/ solo.seen # Seen
    /\ solo' = [store |-> own, snapA |-> sA, snapB |-> sB, inRun |-> inRun,
                step |-> <<name, arg>>, seen |-> Seen,
                verdict |-> verdict, promoted |-> promoted]
    /\ UNCHANGED <<store, nextId, ops, inflight, now, log, tpc, snapA, snapB, runs,
                   afterRun, apc, snapS, aruns, afterArch>>

\* A step that changes the collection of the second run only.
SoloWrites(name, arg, own) ==
    SoloTakes(name, arg, own, solo.snapA, solo.snapB, solo.inRun, FALSE, {})

\* createTask, updateTaskStatus and deleteTask: a write to a task of the
\* observed owner is made in both runs, a write of another owner in the
\* first only.
SoloCreate(owner, status) ==
    /\ ENABLED (CanShare /\ createTask(owner, "P1", status))
    /\ SoloWrites("create", <<owner, status>>,
                  IF owner = Observed
                    THEN Put(solo.store, nextId + 1, TaskData(owner, "P1", status, now, {}))
                    ELSE solo.store)

SoloActivate(id) ==
    /\ ENABLED (CanShare /\ updateTaskStatus(id, TODAY))
    /\ store[id].owner = Observed
          => id \in Docs(solo.store) /\ solo.store[id].status = BACKLOG
    /\ SoloWrites("activate", id,
                  IF store[id].owner = Observed
                    THEN Put(solo.store, id, [solo.store[id] EXCEPT !.status = TODAY])
                    ELSE solo.store)

SoloDelete(id) ==
    /\ ENABLED (CanShare /\ deleteTask(id))
    /\ store[id].owner = Observed => id \in Docs(solo.store)
    /\ SoloWrites("delete", id,
                  IF store[id].owner = Observed THEN Remove(solo.store, id) ELSE solo.store)

\* The check of enforceWipOnCreate and enforceWipOnUpdate for the event inv:
\* checkWipLimits counts in the collection of the second run.
SoloCheck(inv) ==
    /\ inv \in Pending /\ inv.pc = "pending"
    /\ SoloTakes("check", inv, solo.store, solo.snapA, solo.snapB, solo.inRun,
                 /\ Activation(inv)
                 /\ inv.after.owner = Observed
                 /\ checkWipLimits(solo.store, inv.after.owner, inv.after.priority),
                 {})

\* snapshot.ref.delete() and after.ref.set(beforeData) for the event inv.
SoloUndo(inv) ==
    /\ inv \in Pending /\ inv.pc \in {"delete", "revert"}
    /\ SoloWrites("undo", inv,
                  IF inv.after.owner # Observed THEN solo.store
                  ELSE IF inv.pc = "delete" THEN Deleted(solo.store, inv)
                  ELSE LET cur == IF inv.id \in Docs(solo.store)
                                    THEN solo.store[inv.id] ELSE inv.before
                       IN Put(solo.store, inv.id, Reverted(cur, inv.before)))

\* The step of dailyTriage at which the first run is.  When batch1 of the
\* first run fails and batch1 of the second commits, the second run goes
\* through steps 2 and 3 at once.
SoloJob ==
    /\ runs = 0 /\ apc = "idle"
    /\ LET own == solo.store
           demoted == BatchUpdate(own, solo.snapA, BACKLOG)
           refsA == PromotedBy(demoted, BacklogQuery(demoted))
           refsB == PromotedBy(own, solo.snapB)
       IN CASE tpc = "idle" ->
                 SoloTakes("job", tpc, own, TodayQuery(own), <<>>, TRUE, FALSE, {})
            [] tpc = "A_commit" /\ ~(solo.inRun /\ solo.snapA \subseteq Docs(own)) ->
                 SoloTakes("job", tpc, own, {}, <<>>, FALSE, FALSE, {})
            [] tpc = "A_commit" /\ solo.inRun /\ solo.snapA \subseteq Docs(own)
                                /\ snapA \subseteq Docs(store) ->
                 SoloTakes("job", tpc, demoted, solo.snapA, <<>>, TRUE, FALSE, {})
            [] tpc = "A_commit" /\ solo.inRun /\ solo.snapA \subseteq Docs(own)
                                /\ ~(snapA \subseteq Docs(store)) ->
                 SoloTakes("job", tpc, BatchUpdate(demoted, refsA, TODAY), {}, <<>>, FALSE,
                           FALSE, {i \in refsA : demoted[i].status # TODAY})
            [] tpc = "B_read" ->
                 SoloTakes("job", tpc, own, solo.snapA,
                           IF solo.inRun THEN BacklogQuery(own) ELSE <<>>,
                           solo.inRun, FALSE, {})
            [] tpc = "B_commit" /\ solo.inRun ->
                 SoloTakes("job", tpc, BatchUpdate(own, refsB, TODAY), {}, <<>>, FALSE,
                           FALSE, {i \in refsB : own[i].status # TODAY})
            [] tpc = "B_commit" /\ ~solo.inRun ->
                 SoloTakes("job", tpc, own, {}, <<>>, FALSE, FALSE, {})

\* The first run takes the step the second has just taken.
Follows(name, arg) ==
    /\ solo.step[1] = name
    /\ solo.step[2] = arg
    /\ solo.seen = Seen

NextOwners ==
    \/ \E o \in Owners : SoloCreate(o, TODAY)
    \/ \E id \in 1..(OwnerDocs + OwnerOps) : SoloActivate(id)
    \/ \E id \in 1..(OwnerDocs + OwnerOps) : SoloDelete(id)
    \/ \E inv \in Pending : SoloCheck(inv)
    \/ \E inv \in Pending : SoloUndo(inv)
    \/ SoloJob
    \/ \E o \in Owners :
          Follows("create", <<o, TODAY>>) /\ CanShare /\ createTask(o, "P1", TODAY)
    \/ \E id \in 1..(OwnerDocs + OwnerOps) :
          Follows("activate", id) /\ CanShare /\ updateTaskStatus(id, TODAY)
    \/ \E id \in 1..(OwnerDocs + OwnerOps) :
          Follows("delete", id) /\ CanShare /\ deleteTask(id)
    \/ \E inv \in Pending : Follows("check", inv) /\ OnCreateCheck(inv)
    \/ \E inv \in Pending : Follows("check", inv) /\ OnUpdateCheck(inv)
    \/ \E inv \in Pending : Follows("undo", inv) /\ OnCreateDelete(inv)
    \/ \E inv \in Pending : Follows("undo", inv) /\ OnUpdateRevert(inv)
    \/ (Follows("job", tpc) /\ runs = 0 /\ Triage)

SpecOwners == InitOwners /\ [][NextOwners]_vars

----------------------------------------------------------------------------
\* Concurrent admissions for one owner and one priority: P1 tasks are
\* created and moved between Backlog, Today and Done with the buttons, while
\* the triggers of earlier writes are still to run.  No scheduled job, no
\* edit of a priority.

CanAdmit == ops < AdmitOps /\ BagCardinality(inflight) < MaxInflight

NextAdmit ==
    \/ \E s \in {BACKLOG, TODAY} : CanAdmit /\ createTask("u1", "P1", s)
    \/ \E id \in 1..AdmitOps, s \in TaskStatus : CanAdmit /\ updateTaskStatus(id, s)
    \/ \E inv \in Pending : OnCreateCheck(inv)
    \/ \E inv \in Pending : OnCreateDelete(inv)
    \/ \E inv \in Pending : OnUpdateCheck(inv)
    \/ \E inv \in Pending : OnUpdateRevert(inv)

SpecAdmit == Init /\ [][NextAdmit]_vars

----------------------------------------------------------------------------
\* One owner's P1 tasks, some of them completed earlier: the edit form,
\* which is open on a Done task as on any other, and the triggers.

\* The day a seeded Done task was completed, and the current day.
DoneDay == 0
RedoNow == DoneDay + 1

RedoSeed ==
    {TaskData("u1", "P1", s, DoneDay, IF s = DONE THEN {DoneDay} ELSE {}) :
        s \in {BACKLOG, TODAY, DONE}}

InitRedo ==
    /\ store \in [1..RedoDocs -> RedoSeed]
    /\ nextId = RedoDocs
    /\ ops = 0
    /\ inflight = EmptyBag
    /\ now = RedoNow
    /\ log = Say("none", 0)
    /\ tpc = "idle"
    /\ snapA = {}
    /\ snapB = <<>>
    /\ runs = 0
    /\ afterRun = <<>>
    /\ apc = "idle"
    /\ snapS = {}
    /\ aruns = 0
    /\ afterArch = <<>>
    /\ solo = NoSolo

CanRedo == ops < RedoOps /\ BagCardinality(inflight) < MaxInflight

NextRedo ==
    \/ \E s \in {BACKLOG, TODAY} : CanRedo /\ createTask("u1", "P1", s)
    \/ \E id \in 1..(RedoDocs + RedoOps), s \in TaskStatus : CanRedo /\ updateTask(id, "P1", s)
    \/ \E inv \in Pending : OnCreateCheck(inv)
    \/ \E inv \in Pending : OnCreateDelete(inv)
    \/ \E inv \in Pending : OnUpdateCheck(inv)
    \/ \E inv \in Pending : OnUpdateRevert(inv)

SpecRedo == InitRedo /\ [][NextRedo]_vars

----------------------------------------------------------------------------
\* The same tasks with every client write (form, buttons, delete) and
\* at-least-once delivery: an event can be delivered once more while it is
\* pending.  ops counts the client's writes and the redeliveries, both
\* finitely many.  Every delivered event is handled in the end.

Redeliver(inv) ==
    /\ inv \in Pending /\ inv.pc = "pending"
    /\ ops < RedoOps
    /\ inflight' = inflight (+) SetToBag({inv})
    /\ ops' = ops + 1
    /\ UNCHANGED <<store, nextId, now, log, JobVars>>

NextQuiesce ==
    \/ \E s \in {BACKLOG, TODAY} : CanRedo /\ createTask("u1", "P1", s)
    \/ \E id \in 1..(RedoDocs + RedoOps), s \in TaskStatus : CanRedo /\ updateTask(id, "P1", s)
    \/ \E id \in 1..(RedoDocs + RedoOps), s \in TaskStatus : CanRedo /\ updateTaskStatus(id, s)
    \/ \E id \in 1..(RedoDocs + RedoOps) : CanRedo /\ deleteTask(id)
    \/ \E inv \in Pending : Redeliver(inv)
    \/ \E inv \in Pending : OnCreateCheck(inv)
    \/ \E inv \in Pending : OnCreateDelete(inv)
    \/ \E inv \in Pending : OnUpdateCheck(inv)
    \/ \E inv \in Pending : OnUpdateRevert(inv)

SpecQuiesce ==
    /\ InitRedo
    /\ [][NextQuiesce]_vars
    /\ WF_vars(\E inv \in Pending : OnCreateCheck(inv))
    /\ WF_vars(\E inv \in Pending : OnCreateDelete(inv))
    /\ WF_vars(\E inv \in Pending : OnUpdateCheck(inv))
    /\ WF_vars(\E inv \in Pending : OnUpdateRevert(inv))

----------------------------------------------------------------------------
\* Properties.

Settled == inflight = EmptyBag

\* This step is the one trigger invocation inv takes.
Handled(inv) == CopiesIn(inv, inflight') = CopiesIn(inv, inflight) - 1

\* This step is the check of the pending invocation inv, and it ends with
\* the write named by next ("delete" or "revert") left to do.
Decided(inv, next) ==
    /\ inv.pc = "pending"
    /\ Handled(inv)
    /\ CopiesIn([inv EXCEPT !.pc = next], inflight')
         = CopiesIn([inv EXCEPT !.pc = next], inflight) + 1

Limited(priority) == priority \in {"P1", "P2"}

\* The owner's count of Active tasks of the invocation's priority.
CountOf(inv) == ActiveCount(store, inv.after.owner, inv.after.priority)

CapHolds ==
    \A u \in Owners : /\ ActiveCount(store, u, "P1") <= p1MaxToday
                      /\ ActiveCount(store, u, "P2") <= p2MaxToday

\* C1: with no scheduled job running, in every state where no trigger
\* invocation is pending every owner has at most p1MaxToday Active P1 tasks
\* and at most p2MaxToday Active P2 tasks, whatever creates, status changes
\* and priority edits the client has made.
C1_CapWhenSettled == Settled => CapHolds

\* C2: an activation of a P1 or P2 task (a create in Today, or an update
\* into Today) is rejected only when the owner's count of Active tasks of
\* that priority, the task included, is strictly greater than the limit.
C2_RejectedOnlyAboveLimit ==
    [][\A inv \in Pending :
          (Decided(inv, "delete") \/ Decided(inv, "revert"))
             => CountOf(inv) > Limit(inv.after.priority)]_vars

\* C3: for an update of a Backlog task with fields F into Today, handled
\* with no other write in between: when the update has pushed the owner's
\* count for that priority over the limit the trigger decides to revert,
\* and its revert leaves the document equal to F, every field as before
\* the update, and every other document as it was.
C3_RevertRestoresF ==
    [][\A inv \in Pending :
          (inv.kind = "update" /\ inv.before.status = BACKLOG /\ inv.after.status = TODAY)
             => /\ (/\ inv.pc = "pending" /\ Handled(inv)
                    /\ Limited(inv.after.priority)
                    /\ CountOf(inv) > Limit(inv.after.priority))
                      => Decided(inv, "revert")
                /\ (inv.pc = "revert" /\ Handled(inv))
                      => store' = Put(store, inv.id, inv.before)]_vars

\* A revert has just restored a Backlog task while the owner keeps
\* p1MaxToday Active P1 tasks: the reverted update had made the count
\* p1MaxToday + 1.
C3_Witness ==
    /\ log.msg = "reverted"
    /\ log.id \in Docs(store)
    /\ store[log.id].status = BACKLOG
    /\ ActiveCount(store, store[log.id].owner, "P1") >= p1MaxToday

\* C4: the create trigger decides to delete exactly when the created task
\* is in Today and checkWipLimits reports that the limit would be exceeded;
\* its delete removes that document and changes no other; and no other
\* step of the triggers removes a document.
C4_DeletesExactlyTheRejected ==
    [][/\ \A inv \in Pending :
             (inv.kind = "create" /\ inv.pc = "pending" /\ Handled(inv))
                => (Decided(inv, "delete")
                      <=> /\ inv.after.status = TODAY
                          /\ Limited(inv.after.priority)
                          /\ CountOf(inv) + 1 > Limit(inv.after.priority))
       /\ \A inv \in Pending :
             (inv.kind = "create" /\ inv.pc = "delete" /\ Handled(inv))
                => store' = Remove(store, inv.id)
       /\ \A i \in Docs(store) \ Docs(store') :
             \/ ops' = ops + 1
             \/ \E inv \in Pending : /\ inv.kind = "create" /\ inv.pc = "delete"
                                     /\ inv.id = i /\ Handled(inv)]_vars

\* The third Active P1 task of an owner has just been deleted and the two
\* others are in the store.
C4_Witness ==
    /\ log.msg = "deleted"
    /\ log.id \notin Docs(store)
    /\ \E u \in Owners : ActiveCount(store, u, "P1") = p1MaxToday - 1

\* An event that is no entry into Today: a created task not in Today, an
\* update of a task that was in Today or is not in Today afterwards.
NoEntry(inv) ==
    \/ inv.kind = "create" /\ inv.after.status # TODAY
    \/ inv.kind = "update" /\ (inv.before.status = TODAY \/ inv.after.status # TODAY)

\* C5: for an event that is no entry into Today the admission control
\* writes nothing: the invocation ends in its first step, with no delete
\* and no revert, every document stays, and the only field that step may
\* change is the completedOn that the completion stamp of the same trigger
\* writes on a task that became Done.
C5_NoWriteWithoutEntry ==
    [][\A inv \in Pending :
          (NoEntry(inv) /\ Handled(inv))
             => /\ inv.pc = "pending"
                /\ ~Decided(inv, "delete") /\ ~Decided(inv, "revert")
                /\ Docs(store') = Docs(store)
                /\ \A i \in Docs(store) :
                      \/ store'[i] = store[i]
                      \/ /\ i = inv.id /\ inv.kind = "update"
                         /\ inv.before.status # DONE /\ inv.after.status = DONE
                         /\ store'[i] = [store[i] EXCEPT !.completedOn = store'[i].completedOn]]_vars

\* An update of a task that was already in Today has been handled without
\* action while the owner has p1MaxToday Active P1 tasks, that task among
\* them: its priority was edited to P1 while Active.
C5_Witness ==
    /\ log.msg = "no action"
    /\ Settled
    /\ log.id \in Docs(store)
    /\ store[log.id].status = TODAY
    /\ store[log.id].priority = "P1"
    /\ ActiveCount(store, store[log.id].owner, "P1") >= p1MaxToday

\* C6: no created task of priority P3 or P4 is ever up for deletion and no
\* update of a P3 or P4 task is ever up for a revert, whatever the owner's
\* number of Active tasks of that priority.
C6_LowPrioritiesUnconstrained ==
    \A inv \in Pending :
        inv.pc \in {"delete", "revert"} => Limited(inv.after.priority)

\* An activation of a P3 or P4 task has been accepted with p1MaxToday
\* Active tasks of that owner and priority in the store.
C6_Witness ==
    /\ log.msg = "ok"
    /\ log.id \in Docs(store)
    /\ store[log.id].priority \in {"P3", "P4"}
    /\ store[log.id].status = TODAY
    /\ ActiveCount(store, store[log.id].owner, store[log.id].priority) >= p1MaxToday

InRun == tpc \in {"A_commit", "B_read", "B_commit"}

\* C7: Phase A demotes the tasks of its snapshot in one step: during a run
\* either all of them are still in Today or all of them are in Backlog, and
\* right after the commit no task is in Today.
C7_PhaseAAtomic ==
    /\ InRun => \/ \A i \in snapA : store[i].status = TODAY
                \/ \A i \in snapA : store[i].status = BACKLOG
    /\ tpc = "B_read" => \A i \in Docs(store) : store[i].status # TODAY

\* Phase A has just demoted two tasks of different owners and priorities.
C7_Witness ==
    /\ tpc = "B_read"
    /\ \E i, j \in snapA : /\ store[i].owner # store[j].owner
                           /\ store[i].priority # store[j].priority
                           /\ store[i].status = BACKLOG /\ store[j].status = BACKLOG

\* The keys of the first n documents of the owner's Backlog and Today tasks
\* of one priority, oldest first.
Oldest(s, u, p, n) ==
    {e.key : e \in Range(Slice(OrderByCreatedOn(s,
        {i \in Docs(s) : /\ s[i].owner = u /\ s[i].priority = p
                         /\ s[i].status \in {BACKLOG, TODAY}}), n))}

\* C8: after a Triage run with no concurrent write, for every owner and for
\* P1 and P2 the Active tasks are exactly the p1MaxToday (p2MaxToday) oldest
\* of the tasks that were in Backlog when Phase B read them.
C8_FifoPromotion ==
    (runs >= 1 /\ tpc = "idle")
       => \A u \in Owners, p \in {"P1", "P2"} :
             {i \in Docs(store) : /\ store[i].owner = u /\ store[i].priority = p
                                  /\ store[i].status = TODAY}
               = Oldest(store, u, p, Limit(p))

\* C9: no step of the Triage run turns a task of priority P3 or P4 that is
\* not in Today into a Today task.
C9_NoLowPriorityPromotion ==
    [][\A i \in Docs(store) \cap Docs(store') :
          (store[i].priority \in {"P3", "P4"} /\ store[i].status # TODAY)
             => store'[i].status # TODAY]_vars

\* A run has committed its promotion batch and left in Backlog a P3 or P4
\* task that is as old as any task of the collection.
C9_Witness ==
    /\ runs >= 1 /\ tpc = "idle"
    /\ log.msg = "promoted"
    /\ \E i \in Docs(store) : /\ store[i].priority \in {"P3", "P4"}
                              /\ store[i].status = BACKLOG
                              /\ \A j \in Docs(store) : store[i].createdOn <= store[j].createdOn

\* C10: the store after a second Triage run, no write in between, equals
\* the store the first run left.
C10_TriageIdempotent == (runs >= 2 /\ tpc = "idle") => store = afterRun

\* Two runs are over, and the event of a task that the first run demoted
\* is still to be handled.
C10_Witness ==
    /\ runs = 2 /\ tpc = "idle"
    /\ store = afterRun
    /\ \E inv \in Pending : inv.before.status = TODAY /\ inv.after.status = BACKLOG

\* C11: when a run of the daily triage has completed, whatever client
\* activations and trigger invocations have interleaved with its four
\* steps, and no trigger invocation is pending, every owner has at most
\* p1MaxToday Active P1 tasks and at most p2MaxToday Active P2 tasks.
C11_CapAfterTriage == (runs >= 1 /\ tpc = "idle" /\ Settled) => CapHolds

\* A run is over and nothing is pending; a task that was activated between
\* the run's Phase A query and its end (it was in Today when the run ended,
\* so Phase A did not have it in its snapshot) is an Active P1 task, next
\* to a task in Backlog.
C11_Witness ==
    /\ runs = 1 /\ tpc = "idle" /\ Settled
    /\ \E i, j \in Docs(store) :
          /\ store[i].status = BACKLOG
          /\ j \in Docs(afterRun)
          /\ afterRun[j].status = TODAY
          /\ store[j].status = TODAY
          /\ store[j].priority = "P1"

\* C12: when the Phase B batch of a run fails, the run ends there: the
\* store is left as it was, with every task of the Phase A snapshot in
\* Backlog and no task in Today, no trigger invocation is raised, and the
\* job returns (the run is counted as over, and neither phase is entered
\* again by that run).
C12_PhaseBFailureEndsRun ==
    [][(tpc = "B_commit" /\ log'.msg = "triage failed")
          => /\ store' = store
             /\ inflight' = inflight
             /\ \A i \in snapA : store'[i].status = BACKLOG
             /\ \A i \in Docs(store') : store'[i].status # TODAY
             /\ tpc' = "idle"
             /\ runs' = runs + 1]_vars

\* A run has failed in Phase B after its Phase A demoted a task: the
\* invocation raised by the demotion is still pending and the task is in
\* Backlog.
C12_Witness ==
    /\ tpc = "idle" /\ runs = 1
    /\ log.msg = "triage failed"
    /\ \E inv \in Pending : /\ inv.before.status = TODAY
                            /\ inv.after.status = BACKLOG
                            /\ store[inv.id].status = BACKLOG

\* C13: when a scheduled job commits its batch (Phase A of the triage, the
\* archiver), every task of its snapshot that is still in the store
\* receives the transition, also when another task of the snapshot has
\* been deleted since the query.
C13_DeletedTaskIsSkipped ==
    [][/\ (tpc = "A_commit" /\ tpc' # "A_commit")
             => \A i \in snapA \cap Docs(store) : store'[i].status = BACKLOG
       /\ (apc = "commit" /\ apc' # "commit")
             => \A i \in snapS \cap Docs(store) : store'[i].status = ARCHIVE]_vars

\* The store in which exactly the Backlog tasks of s created strictly
\* before day t - STALE_TASK_DAYS have become Archive tasks.
ArchExpected(s, t) ==
    [i \in Docs(s) |->
        IF s[i].status = BACKLOG /\ s[i].createdOn < t - STALE_TASK_DAYS
          THEN [s[i] EXCEPT !.status = ARCHIVE] ELSE s[i]]

\* C14: a run of the archiver with no concurrent write leaves the store in
\* which exactly the Backlog tasks created strictly before the cutoff have
\* become Archive tasks: a Backlog task created at the cutoff or later and
\* every Today, Done or Archive task is as it was, and so is every other
\* field; the query step writes nothing.
C14_ArchivesExactlyTheStale ==
    [][/\ (aruns' = aruns + 1) => store' = ArchExpected(store, now)
       /\ (apc = "idle" /\ apc' = "commit") => store' = store]_vars

\* A run has archived a task and left in Backlog a task created on the day
\* of the cutoff.
C14_Witness ==
    /\ aruns = 1 /\ apc = "idle"
    /\ log.msg = "archived"
    /\ \E i, j \in Docs(store) :
          /\ store[i].status = ARCHIVE
          /\ \E inv \in Pending : inv.id = i /\ inv.before.status = BACKLOG
          /\ store[j].status = BACKLOG
          /\ store[j].createdOn = cutoffDate(now)

\* C15: a run of the archiver that follows a complete run, no write in
\* between, finds nothing to archive: it ends in its query step, logs that
\* there is nothing to do, commits no batch and raises no invocation, and
\* the store stays the one the first run left.
C15_ArchiveIdempotent ==
    [][(aruns >= 1 /\ apc = "idle" /\ <<apc, aruns>>' # <<apc, aruns>>)
          => /\ apc' = "idle"
             /\ aruns' = aruns + 1
             /\ log'.msg = "no stale tasks"
             /\ store' = store
             /\ store' = afterArch
             /\ inflight' = inflight]_vars

\* Two runs are over; the first archived a task, whose invocation is still
\* pending, and the second found nothing.
C15_Witness ==
    /\ aruns = 2 /\ apc = "idle"
    /\ log.msg = "no stale tasks"
    /\ store = afterArch
    /\ \E inv \in Pending : /\ inv.before.status = BACKLOG
                            /\ inv.after.status = ARCHIVE
                            /\ store[inv.id].status = ARCHIVE

\* C16: no step of the triggers or of the scheduled jobs changes the
\* status of a task that is in Archive: only a client write does.
C16_NoResurrection ==
    [][\A i \in Docs(store) \cap Docs(store') :
          (store[i].status = ARCHIVE /\ store'[i].status # ARCHIVE)
             => ops' = ops + 1]_vars

\* C17: in every state where no trigger invocation is pending, a task has
\* a completedOn exactly when its status is Done.
C17_CompletedOnIffDone ==
    Settled => \A i \in Docs(store) :
                  (store[i].completedOn # {}) <=> (store[i].status = DONE)

\* C18: no step of the triggers or of the scheduled jobs leaves a task
\* that had a completedOn without one.
C18_CompletedOnKept ==
    [][\A i \in Docs(store) \cap Docs(store') :
          (store[i].completedOn # {} /\ ops' = ops)
             => store'[i].completedOn # {}]_vars

\* The event of an update that took task id from a status other than Done
\* to Done is delivered and not yet handled.
DonePending(id) ==
    \E inv \in Pending : /\ inv.id = id /\ inv.kind = "update" /\ inv.pc = "pending"
                         /\ inv.before.status # DONE /\ inv.after.status = DONE

\* C19: whenever the event of an update of a task to Done is pending, a
\* state follows in which the task, unless it has been deleted, has a
\* completedOn; also when a revert of the admission control has taken the
\* completedOn written by the client away in between.
C19_DoneGetsCompletedOn ==
    \A id \in 1..JobDocs :
        DonePending(id) ~> (id \notin Docs(store) \/ store[id].completedOn # {})

\* The trigger has stamped the completedOn of a task that a revert had put
\* back into Backlog after the client marked it Done.
C19_Witness ==
    /\ log.msg = "completed"
    /\ log.id \in Docs(store)
    /\ store[log.id].status = BACKLOG
    /\ store[log.id].completedOn # {}

\* C20: the invocation of the update trigger for an event whose status is
\* not Done before and not Done after writes no completedOn: its first
\* step leaves the store as it is, and the only write such an invocation
\* can make is the revert of the admission control, which puts back the
\* data of before the update and adds no completion time to it.
C20_NoStampWithoutDone ==
    [][\A inv \in Pending :
          (/\ inv.kind = "update"
           /\ inv.before.status # DONE /\ inv.after.status # DONE
           /\ Handled(inv))
             => /\ inv.pc = "pending" => store' = store
                /\ inv.pc = "revert" => store' = Put(store, inv.id, inv.before)]_vars

\* The one task ever created has been written once more, the event of that
\* write has been handled without action, and the task is in Backlog with
\* no completedOn: the write was a move from Today to Backlog or an edit of
\* a Backlog task.
C20_Witness ==
    /\ nextId = 1 /\ ops = 2 /\ Settled
    /\ log = Say("no action", 1)
    /\ 1 \in Docs(store)
    /\ store[1].status = BACKLOG
    /\ store[1].completedOn = {}

\* This step is a step of a scheduled job.
JobStep == <<tpc, runs, apc, aruns>>' # <<tpc, runs, apc, aruns>>

\* C21: a step of the triage or of the archiver creates no document,
\* deletes none, and changes no field of a document other than its status.
C21_JobsChangeStatusOnly ==
    [][JobStep
          => /\ Docs(store') = Docs(store)
             /\ \A i \in Docs(store) :
                   [store'[i] EXCEPT !.status = store[i].status] = store[i]]_vars

\* A triage run has demoted a task and an archiver run has archived a
\* task: the invocations raised by the two batches are still pending.
C21_Witness ==
    /\ runs >= 1 /\ aruns >= 1 /\ tpc = "idle" /\ apc = "idle"
    /\ \E inv \in Pending : inv.before.status = TODAY /\ inv.after.status = BACKLOG
    /\ \E inv \in Pending : inv.before.status = BACKLOG /\ inv.after.status = ARCHIVE

\* C22: no step of the triggers or of the scheduled jobs adds a document
\* to the store, so a task the client has deleted stays absent.
C22_CoreCreatesNoTask ==
    [][ops' = ops => Docs(store') \subseteq Docs(store)]_vars

\* C23: owners are independent.  Of two runs that take the same steps, one
\* on the collection with the tasks of two owners and one on the collection
\* with the tasks of the observed owner only, the triggers take the same
\* decision on every activation of a task of the observed owner, and the
\* Triage run promotes the same tasks of the observed owner.
C23_OwnersIndependent ==
    [][/\ \A inv \in Pending :
             (Activation(inv) /\ inv.after.owner = Observed /\ Handled(inv))
                => ((Decided(inv, "delete") \/ Decided(inv, "revert")) <=> solo.verdict)
       /\ (tpc # "idle" /\ tpc' = "idle")
             => {i \in Docs(store) \cap Docs(store') :
                    /\ store[i].owner = Observed
                    /\ store[i].status # TODAY /\ store'[i].status = TODAY}
                  = solo.promoted]_vars

\* C24: a step of the triage or of the archiver leaves a task that is Done
\* when the batch commits in the status Done.
C24_DoneIsTerminalForJobs ==
    [][JobStep => \A i \in Docs(store) \cap Docs(store') :
                     store[i].status = DONE => store'[i].status = DONE]_vars

\* C25: once a Triage run is over and every event it raised has been
\* handled, no client write in between, the p1MaxToday (p2MaxToday) oldest
\* of each owner's Queued P1 (P2) tasks are all Active.
C25_PromotionsSurvive ==
    (runs >= 1 /\ tpc = "idle" /\ Settled)
       => \A u \in Owners, p \in {"P1", "P2"} :
             \A i \in Oldest(store, u, p, Limit(p)) : store[i].status = TODAY

\* C26: with creates and status changes only, whatever the order in which
\* concurrent trigger invocations run, a state in which every invocation
\* has finished has at most p1MaxToday Active P1 tasks of the owner.
C26_CapAfterConcurrentAdmissions ==
    Settled => ActiveCount(store, "u1", "P1") <= p1MaxToday

\* Every invocation has finished after the last of the client's writes, a
\* task created in Today was rejected and deleted, and the owner is left
\* with Active tasks.
C26_Witness ==
    /\ Settled
    /\ ops = AdmitOps
    /\ Cardinality(Docs(store)) < nextId
    /\ ActiveCount(store, "u1", "P1") >= 2

\* The trigger invocation inv has rejected its activation and still has to
\* delete or revert the task, which is as the client wrote it.
Doomed(inv) ==
    /\ inv.pc \in {"delete", "revert"}
    /\ inv.id \in Docs(store)
    /\ store[inv.id] = inv.after

\* The collection without the activation of inv.
Without(s, inv) ==
    IF inv.kind = "create" THEN Remove(s, inv.id) ELSE Put(s, inv.id, inv.before)

\* C27: two tasks of the same owner and priority that were activated at
\* the same time are never both rejected when each of the two activations
\* passes the check without the other: one of the two stays Active.
C27_NoMutualCancellation ==
    \A inv1, inv2 \in Pending :
       (/\ inv1.id # inv2.id
        /\ inv1.after.owner = inv2.after.owner
        /\ inv1.after.priority = inv2.after.priority
        /\ ~checkWipLimits(Without(store, inv2), inv1.after.owner, inv1.after.priority)
        /\ ~checkWipLimits(Without(store, inv1), inv2.after.owner, inv2.after.priority))
          => ~(Doomed(inv1) /\ Doomed(inv2))

\* C28: the client only edits tasks with the form, so a task is Done only
\* if it was completed on DoneDay, or put back to Done by a revert of its
\* activation; once every event has been handled, such a task still has
\* the completedOn it had.
C28_RevertKeepsCompletedOn ==
    Settled => \A i \in Docs(store) :
                  store[i].status = DONE => store[i].completedOn = {DoneDay}

\* C29: the triggers come to rest: from some state on no event is pending,
\* so no trigger invocation will write again.
C29_Quiesces == <>[]Settled

\* No event is pending after a chain of three trigger writes and events:
\* the revert of the activation of a Done task, the stamp that the revert's
\* event got, and the event of the stamp, which led to no action.
C29_Witness ==
    /\ Settled
    /\ log.msg = "no action"
    /\ log.id \in Docs(store)
    /\ store[log.id].status = DONE
    /\ store[log.id].completedOn = {now}

\* C30: step 3 of a Triage run sets the status of every document from which
\* a task to promote was read to Today, and its batch commits.
C30_PromotionAddressesTheDocument ==
    [][(tpc = "B_commit" /\ tpc' = "idle")
          => /\ \A e \in ToPromote(snapB) :
                   e.key \in Docs(store') /\ store'[e.key].status = TODAY
             /\ log'.msg = "promoted"]_vars

====
